---- MODULE Spec2Model ----
\* Model of apps/openassessment/xblock/openassessmentblock.py (OpenAssessmentBlock).
\* One block instance lives in the host runtime at a time; parse_xml replaces it.
EXTENDS Integers, Sequences, FiniteSets, TLC

VARIABLES clock, import_time, block, last

vars == <<clock, import_time, block, last>>

\* ---------------------------------------------------------------- bounds
MaxTime == 1
MaxDocLen == 2

\* ---------------------------------------------------------------- host values
None == "<None>"

Usages == {"u1", "u2"}
Users == {"s1", "s2"}
ScopeIds == [usage_id : Usages, user_id : Users]

\* datetime.isoformat(): a wall-clock instant rendered as an ISO-8601 string
isoformat(t) == "2014-02-10T00:00:0" \o ToString(t)

\* ---------------------------------------------------------------- defaults
DEFAULT_PROMPT == "Censorship in the Libraries ... Write a persuasive essay"

DEFAULT_RUBRIC_INSTRUCTIONS == "Read for conciseness, clarity of thought, and form."

CRITERION_IDEAS ==
    [name |-> "Ideas",
     instructions |-> "Determine if there is a unifying theme or main idea.",
     total_value |-> 5,
     options |-> << <<0, "Poor", "Difficult for the reader to discern the main idea.">>,
                    <<3, "Fair", "Presents a unifying theme or main idea, but may include minor tangents.">>,
                    <<5, "Good", "Presents a unifying theme or main idea without going off on tangents.">> >>]

CRITERION_CONTENT ==
    [name |-> "Content",
     instructions |-> "Assess the content of the submission",
     total_value |-> 5,
     options |-> << <<0, "Poor", "Includes little information with few or no details or unrelated details.">>,
                    <<1, "Fair", "Includes little information and few or no details.">>,
                    <<3, "Good", "Includes sufficient information and supporting details.">>,
                    <<5, "Excellent", "Includes in-depth information and exceptional supporting details.">> >>]

CRITERION_ORGANIZATION ==
    [name |-> "Organization",
     instructions |-> "Determine if the submission is well organized.",
     total_value |-> 2,
     options |-> << <<0, "Poor", "Ideas organized illogically, transitions weak.">>,
                    <<1, "Fair", "Attempts to logically organize ideas.">>,
                    <<2, "Good", "Ideas organized logically.">> >>]

CRITERION_STYLE ==
    [name |-> "Style",
     instructions |-> "Read for style.",
     total_value |-> 2,
     options |-> << <<0, "Poor", "Contains limited vocabulary, with many words used incorrectly.">>,
                    <<1, "Fair", "Contains basic vocabulary, with words that are predictable and common.">>,
                    <<2, "Good", "Includes vocabulary to make explanations detailed and precise.">> >>]

CRITERION_VOICE ==
    [name |-> "Voice",
     instructions |-> "Read for style.",
     total_value |-> 2,
     options |-> << <<0, "Poor", "Demonstrates language and tone that may be inappropriate to task and reader.">>,
                    <<1, "Fair", "Demonstrates an attempt to adjust language and tone to task and reader.">>,
                    <<2, "Good", "Demonstrates effective adjustment of language and tone to task and reader.">> >>]

\* mutant: the last criterion is dropped and Content is worth 4
DEFAULT_RUBRIC_CRITERIA_short ==
    << CRITERION_IDEAS, [CRITERION_CONTENT EXCEPT !.total_value = 4],
       CRITERION_ORGANIZATION, CRITERION_STYLE >>

\* mutant: the options of Ideas are listed best-first
DEFAULT_RUBRIC_CRITERIA_descending ==
    << [CRITERION_IDEAS EXCEPT !.options =
            << CRITERION_IDEAS.options[3], CRITERION_IDEAS.options[2], CRITERION_IDEAS.options[1] >>],
       CRITERION_CONTENT, CRITERION_ORGANIZATION, CRITERION_STYLE, CRITERION_VOICE >>

DEFAULT_RUBRIC_CRITERIA ==
    << CRITERION_IDEAS, CRITERION_CONTENT, CRITERION_ORGANIZATION,
       CRITERION_STYLE, CRITERION_VOICE >>

\* ui_models.PeerAssessmentUIModel(): a Peer stage with nothing configured yet
PeerAssessmentUIModel ==
    [type |-> "Peer", name |-> "", start_datetime |-> None, due_datetime |-> None,
     must_grade |-> 0, must_be_graded_by |-> 0]

\* ui_models: a Self stage carries the common fields only
SelfAssessmentUIModel ==
    [type |-> "Self", name |-> "self-assessment", start_datetime |-> None, due_datetime |-> None]

\* mutant: the two grading counts are exchanged
DEFAULT_PEER_ASSESSMENT_swapped ==
    [PeerAssessmentUIModel EXCEPT
        !.name = "peer-assessment",
        !.start_datetime = isoformat(import_time),
        !.must_grade = 3,
        !.must_be_graded_by = 5]

\* evaluated once, while the module is imported
DEFAULT_PEER_ASSESSMENT ==
    [PeerAssessmentUIModel EXCEPT
        !.name = "peer-assessment",
        !.start_datetime = isoformat(import_time),
        !.must_grade = 5,
        !.must_be_graded_by = 3]

DEFAULT_ASSESSMENT_MODULES == << DEFAULT_PEER_ASSESSMENT >>

\* ---------------------------------------------------------------- block fields
\* runtime.construct_xblock_from_class(cls, keys): every field at its declared
\* default.  constructed_at, rubric_source and assessments_source are history
\* fields, not read by any operation.
construct_xblock(keys, t) ==
    [scope_ids |-> keys,
     start_datetime |-> isoformat(import_time),
     due_datetime |-> None,
     title |-> "",
     prompt |-> DEFAULT_PROMPT,
     rubric |-> <<>>,
     rubric_instructions |-> DEFAULT_RUBRIC_INSTRUCTIONS,
     rubric_criteria |-> DEFAULT_RUBRIC_CRITERIA,
     rubric_assessments |-> DEFAULT_ASSESSMENT_MODULES,
     course_id |-> "TestCourse",
     children |-> <<>>,
     constructed_at |-> t,
     rubric_source |-> "default",
     assessments_source |-> "default"]

\* the persisted (Scope.content) fields of a block
PersistedFields(b) ==
    <<b.start_datetime, b.due_datetime, b.title, b.prompt, b.rubric,
      b.rubric_instructions, b.rubric_criteria, b.rubric_assessments, b.course_id>>

get_xblock_trace(self) == <<self.scope_ids.usage_id, self.scope_ids.user_id>>

\* mutant: both ids are taken from the first half of the trace
get_student_item_dict_usage_only(self) ==
    [student_id |-> get_xblock_trace(self)[1],
     item_id |-> get_xblock_trace(self)[1],
     course_id |-> self.course_id,
     item_type |-> "openassessment"]

get_student_item_dict(self) ==
    LET item_id == get_xblock_trace(self)[1]
        student_id == get_xblock_trace(self)[2]
    IN [student_id |-> student_id,
        item_id |-> item_id,
        course_id |-> self.course_id,
        item_type |-> "openassessment"]

\* ---------------------------------------------------------------- scenario documents
\* A scenario document is the sequence of child elements of the root node.
Element(tag, text, criteria, stages) ==
    [tag |-> tag, text |-> text, criteria |-> criteria, stages |-> stages]

RecognizedTags == {"title", "prompt", "rubric", "assessments"}

AUTHORED_CRITERION ==
    [name |-> "Clarity", instructions |-> "Is the essay clear?", total_value |-> 2,
     options |-> << <<0, "No", "Unclear.">>, <<1, "Partly", "Clear in places.">>,
                    <<1, "Mostly", "Clear almost everywhere.">>, <<2, "Yes", "Clear.">> >>]

MISORDERED_CRITERION ==
    [name |-> "Clarity", instructions |-> "Is the essay clear?", total_value |-> 2,
     options |-> << <<2, "Yes", "Clear.">>, <<0, "No", "Unclear.">> >>]

AUTHORED_STAGES ==
    << [PeerAssessmentUIModel EXCEPT !.name = "peer-assessment",
            !.start_datetime = "2014-03-01T00:00:00", !.must_grade = 1, !.must_be_graded_by = 1],
       SelfAssessmentUIModel >>

Elements ==
    { Element("title", "Essay", <<>>, <<>>),
      Element("prompt", "", <<>>, <<>>),
      Element("rubric", "Rate the essay.", <<>>, <<>>),
      Element("rubric", "Rate the essay.", <<AUTHORED_CRITERION>>, <<>>),
      Element("rubric", "Rate the essay.", <<MISORDERED_CRITERION>>, <<>>),
      Element("assessments", "", <<>>, <<>>),
      Element("assessments", "", <<>>, AUTHORED_STAGES),
      Element("html", "<p>note</p>", <<>>, <<>>),
      Element("vertical", "", <<>>, <<>>) }

Documents == UNION { [1..n -> Elements] : n \in 0..MaxDocLen }

\* ---------------------------------------------------------------- parse_xml
\* mutant: the handler drops the node instead of embedding it
unknown_handler_drop(self, child) == self

\* unknown_handler: block.runtime.add_node_as_child(block, child, id_generator)
unknown_handler(self, child) ==
    [self EXCEPT !.children = Append(@, child)]

OptionsAscending(criterion) ==
    \A i \in 1..(Len(criterion.options) - 1) :
        criterion.options[i][1] <= criterion.options[i + 1][1]

\* ScenarioParser: one recognized or unrecognized child element applied to the
\* parse state [block, error, forwarded, consumed]
ParseChild(st, i, child) ==
    LET b == st.block
        step(nb) == [st EXCEPT !.block = nb, !.consumed = i]
    IN
    IF child.tag = "title" THEN step([b EXCEPT !.title = child.text])
    ELSE IF child.tag = "prompt" THEN step([b EXCEPT !.prompt = child.text])
    ELSE IF child.tag = "rubric" THEN
        IF child.criteria = <<>>
        THEN step([b EXCEPT !.rubric_instructions = child.text])
        ELSE IF \E k \in 1..Len(child.criteria) : ~OptionsAscending(child.criteria[k])
        THEN [st EXCEPT !.error = "ConfigurationError"]
        ELSE step([b EXCEPT !.rubric_instructions = child.text,
                            !.rubric_criteria = child.criteria,
                            !.rubric_source = "parsed"])
    ELSE IF child.tag = "assessments" THEN
        IF child.stages = <<>>
        THEN step(b)
        ELSE step([b EXCEPT !.rubric_assessments = child.stages,
                            !.assessments_source = "parsed"])
    ELSE [st EXCEPT !.block = unknown_handler(b, child),
                    !.forwarded = Append(@, i),
                    !.consumed = i]

RECURSIVE ParseFrom(_, _, _)
\* ScenarioParser.parse(): the children in document order, stopping at an error
ParseFrom(st, node, i) ==
    IF i > Len(node) \/ st.error # None
    THEN st
    ELSE ParseFrom(ParseChild(st, i, node[i]), node, i + 1)

ScenarioParser_parse(self, node) ==
    ParseFrom([block |-> self, error |-> None, forwarded |-> <<>>, consumed |-> 0], node, 1)

\* parse_xml(cls, node, runtime, keys, id_generator) called at wall-clock time t
parse_xml(node, keys, t) ==
    ScenarioParser_parse(construct_xblock(keys, t), node)

\* ---------------------------------------------------------------- rendering
\* the templates shipped with the package
TEMPLATES == {"static/html/oa_base.html"}

\* django.template.loader.get_template(path)
get_template(path) == [found |-> path \in TEMPLATES, name |-> path]

\* a context variable as the template engine resolves it: a missing one is empty
Resolve(context, key) == IF key \in DOMAIN context THEN context[key] ELSE ""

\* template.render(context): static markup around the interpolated variables
template_render(template, context) ==
    "<div class='openassessment'><h1>" \o Resolve(context, "title") \o "</h1><p>"
        \o Resolve(context, "question") \o "</p></div>"

\* load(path): the text of a packaged resource
load(path) == "resource:" \o path

\* assessment.create_ui_model(): the stage as the template sees it
create_ui_model(assessment) ==
    IF assessment.type = "Peer"
    THEN [assessment_type |-> "peer-assessment", name |-> assessment.name,
          must_grade |-> assessment.must_grade,
          must_be_graded_by |-> assessment.must_be_graded_by]
    ELSE [assessment_type |-> "self-assessment", name |-> assessment.name]

\* mutant: a grade state derived from the block's due date
get_grade_state_by_due_date(self) ==
    [style_class |-> IF self.due_datetime = None THEN "is--incomplete" ELSE "is--complete",
     value |-> IF self.due_datetime = None THEN "Incomplete" ELSE "Complete",
     title |-> "Your Grade:",
     message |-> "You have not started this problem"]

get_grade_state(self) ==
    [style_class |-> "is--incomplete",
     value |-> "Incomplete",
     title |-> "Your Grade:",
     message |-> "You have not started this problem"]

\* mutant: nothing but the question reaches the fragment
student_view_question_only(self, context) ==
    [raised |-> None,
     student_item_dict |-> get_student_item_dict(self),
     context_dict |-> [xblock_trace |-> get_xblock_trace(self), title |-> self.title,
                       question |-> self.prompt,
                       rubric_instructions |-> self.rubric_instructions,
                       rubric_criteria |-> self.rubric_criteria,
                       rubric_assessments |-> [i \in 1..Len(self.rubric_assessments) |->
                                                  create_ui_model(self.rubric_assessments[i])],
                       grade_state |-> get_grade_state(self)],
     fragment |-> [content |-> self.prompt, resources |-> <<>>, js_init_fn |-> None]]

\* student_view(self, context): [raised, student_item_dict, context_dict, fragment]
student_view(self, context) ==
    LET trace == get_xblock_trace(self)
        student_item_dict == get_student_item_dict(self)
        grade_state == get_grade_state(self)
        context_dict ==
            [xblock_trace |-> trace,
             title |-> self.title,
             question |-> self.prompt,
             rubric_instructions |-> self.rubric_instructions,
             rubric_criteria |-> self.rubric_criteria,
             rubric_assessments |-> [i \in 1..Len(self.rubric_assessments) |->
                                        create_ui_model(self.rubric_assessments[i])],
             grade_state |-> grade_state]
        template == get_template("static/html/oa_base.html")
    IN
    IF ~template.found
    THEN [raised |-> "TemplateDoesNotExist", student_item_dict |-> student_item_dict,
          context_dict |-> context_dict,
          fragment |-> [content |-> "", resources |-> <<>>, js_init_fn |-> None]]
    ELSE [raised |-> None, student_item_dict |-> student_item_dict,
          context_dict |-> context_dict,
          fragment |-> [content |-> template_render(template, context_dict),
                        resources |-> << [kind |-> "text/css",
                                          data |-> load("static/css/openassessment.css")],
                                         [kind |-> "application/javascript",
                                          data |-> load("static/js/src/oa_base.js")] >>,
                        js_init_fn |-> "OpenAssessmentBlock"]]

\* keys render_assessment always sets itself
SharedKeys == {"xblock_trace", "rubric_instructions", "rubric_criteria"}

\* a caller's context_dict argument: None, or a dict (a function on its keys)
CallerKeys == SharedKeys \cup {"submission"}

CallerValue(key) ==
    IF key = "xblock_trace" THEN <<"caller-usage", "caller-user">>
    ELSE IF key = "rubric_instructions" THEN "caller instructions"
    ELSE IF key = "rubric_criteria" THEN <<>>
    ELSE "An essay."

CallerContexts ==
    {[is_none |-> TRUE, dict |-> <<>>]} \cup
    {[is_none |-> FALSE, dict |-> [k \in keys |-> CallerValue(k)]] : keys \in SUBSET CallerKeys}

TemplatePaths == {"static/html/oa_base.html", "static/html/no_such_template.html"}

RenderOutcome(self, path, d) ==
    LET template == get_template(path) IN
    IF ~template.found
    THEN [self |-> self, context_dict |-> d, raised |-> "TemplateDoesNotExist", response |-> None]
    ELSE [self |-> self, context_dict |-> d, raised |-> None,
          response |-> [body |-> template_render(template, d),
                        content_type |-> "application/html", charset |-> "UTF-8"]]

\* mutant: the shared keys only fill in what the caller left out
render_assessment_setdefault(self, path, context_dict) ==
    LET given == IF context_dict.is_none \/ DOMAIN context_dict.dict = {}
                 THEN <<>> ELSE context_dict.dict
        d == [k \in DOMAIN given \cup SharedKeys |->
                IF k \in DOMAIN given THEN given[k]
                ELSE IF k = "xblock_trace" THEN get_xblock_trace(self)
                ELSE IF k = "rubric_instructions" THEN self.rubric_instructions
                ELSE self.rubric_criteria]
    IN RenderOutcome(self, path, d)

\* mutant: the rubric assignments run the wrong way, into the block
render_assessment_writes_block(self, path, context_dict) ==
    LET given == IF context_dict.is_none \/ DOMAIN context_dict.dict = {}
                 THEN <<>> ELSE context_dict.dict
        written == [self EXCEPT
                       !.rubric_instructions = IF "rubric_instructions" \in DOMAIN given
                                               THEN given["rubric_instructions"] ELSE @]
        d == [k \in DOMAIN given \cup SharedKeys |->
                IF k = "xblock_trace" THEN get_xblock_trace(self)
                ELSE IF k = "rubric_instructions" THEN written.rubric_instructions
                ELSE IF k = "rubric_criteria" THEN self.rubric_criteria
                ELSE given[k]]
    IN RenderOutcome(written, path, d)

\* render_assessment(self, path, context_dict): [self, context_dict, raised, response]
render_assessment(self, path, context_dict) ==
    LET given == IF context_dict.is_none \/ DOMAIN context_dict.dict = {}
                 THEN <<>> ELSE context_dict.dict
        d == [k \in DOMAIN given \cup SharedKeys |->
                IF k = "xblock_trace" THEN get_xblock_trace(self)
                ELSE IF k = "rubric_instructions" THEN self.rubric_instructions
                ELSE IF k = "rubric_criteria" THEN self.rubric_criteria
                ELSE given[k]]
    IN RenderOutcome(self, path, d)

\* values the host's field-update API is called with
FieldValues(field) ==
    IF field = "prompt" THEN {""}
    ELSE IF field = "course_id" THEN {"OtherCourse"}
    ELSE IF field = "due_datetime" THEN {"2014-04-01T00:00:00"}
    ELSE {<<MISORDERED_CRITERION>>}

UpdatableFields == {"prompt", "course_id", "due_datetime", "rubric_criteria"}

\* ---------------------------------------------------------------- specification
\* the module has just been imported and the host has constructed a block
\* for one of the given usage/learner pairs
InitFor(scope_ids) ==
    /\ clock = 0
    /\ import_time = 0
    /\ \E keys \in scope_ids : block = construct_xblock(keys, 0)
    /\ last = [op |-> "init"]

Init == InitFor(ScopeIds)

\* parsing does not read the block's identity: one usage, one learner
InitParse == InitFor({[usage_id |-> "u1", user_id |-> "s1"]})

Tick ==
    /\ clock < MaxTime
    /\ clock' = clock + 1
    /\ UNCHANGED <<import_time, block, last>>

\* the host instantiates a block from a scenario document, for the usage and
\* learner it is serving; a parse that raises returns no block
ParseXmlOf(documents) ==
    \E node \in documents :
        LET r == parse_xml(node, block.scope_ids, clock) IN
        /\ block' = IF r.error = None THEN r.block ELSE block
        /\ last' = IF r.error = None
                   THEN [op |-> "parse_xml", error |-> None, node |-> node,
                         forwarded |-> r.forwarded, consumed |-> r.consumed]
                   ELSE [op |-> "parse_xml", error |-> r.error]
        /\ UNCHANGED <<clock, import_time>>

ParseXml == ParseXmlOf(Documents)

NextParse ==
    \/ Tick
    \/ ParseXml

SpecParse == InitParse /\ [][NextParse]_vars
\* the host's field-update API assigns one persisted field
FieldUpdate ==
    \E field \in UpdatableFields : \E value \in FieldValues(field) :
        /\ block[field] # value
        /\ block' = [block EXCEPT ![field] = value,
                                  !.rubric_source = IF field = "rubric_criteria"
                                                    THEN "updated" ELSE @]
        /\ last' = [op |-> "field_update", field |-> field]
        /\ UNCHANGED <<clock, import_time>>

StudentView ==
    LET r == student_view(block, None) IN
    /\ last' = [op |-> "student_view", raised |-> r.raised,
                student_item_dict |-> r.student_item_dict,
                context_dict |-> r.context_dict, fragment |-> r.fragment]
    /\ UNCHANGED <<clock, import_time, block>>

RenderAssessment ==
    \E path \in TemplatePaths, context_dict \in CallerContexts :
        LET r == render_assessment(block, path, context_dict) IN
        /\ block' = r.self
        /\ last' = [op |-> "render_assessment", path |-> path, given |-> context_dict,
                    raised |-> r.raised, context_dict |-> r.context_dict,
                    response |-> r.response]
        /\ UNCHANGED <<clock, import_time>>

\* scenario documents of at most one element
ShortDocuments == { node \in Documents : Len(node) <= 1 }

Reparse == ParseXmlOf(ShortDocuments)

Next ==
    \/ Tick
    \/ Reparse
    \/ FieldUpdate
    \/ StudentView
    \/ RenderAssessment

Spec == Init /\ [][Next]_vars

\* ---------------------------------------------------------------- properties
\* the last operation was a parse_xml that returned the current block
ParsedOk == last.op = "parse_xml" /\ last.error = None

Names(criteria) == [i \in 1..Len(criteria) |-> criteria[i].name]
TotalValues(criteria) == [i \in 1..Len(criteria) |-> criteria[i].total_value]

\* C1: a block parsed from a document that supplies zero rubric criteria has
\* exactly the five default criteria Ideas, Content, Organization, Style, Voice,
\* in that order, worth 5, 5, 2, 2, 2.
C1_DefaultRubric ==
    (ParsedOk /\ \A i \in 1..Len(last.node) :
                    last.node[i].tag = "rubric" => last.node[i].criteria = <<>>)
        => /\ Names(block.rubric_criteria)
                = <<"Ideas", "Content", "Organization", "Style", "Voice">>
           /\ TotalValues(block.rubric_criteria) = <<5, 5, 2, 2, 2>>

C1_Witness ==
    /\ ParsedOk
    /\ \E i \in 1..Len(last.node) :
          last.node[i].tag = "rubric" /\ last.node[i].criteria = <<>>
    /\ Len(block.rubric_criteria) = 5

\* C2: a block parsed from a document that supplies zero assessment stages has
\* exactly one stage, a Peer stage named "peer-assessment" with must_grade = 5
\* and must_be_graded_by = 3.
C2_DefaultPeerStage ==
    (ParsedOk /\ \A i \in 1..Len(last.node) :
                    last.node[i].tag = "assessments" => last.node[i].stages = <<>>)
        => /\ Len(block.rubric_assessments) = 1
           /\ block.rubric_assessments[1].type = "Peer"
           /\ block.rubric_assessments[1].name = "peer-assessment"
           /\ block.rubric_assessments[1].must_grade = 5
           /\ block.rubric_assessments[1].must_be_graded_by = 3

C2_Witness ==
    /\ ParsedOk
    /\ \E i \in 1..Len(last.node) :
          last.node[i].tag = "assessments" /\ last.node[i].stages = <<>>
    /\ Len(block.rubric_assessments) = 1

\* C3: a block constructed without scenario-supplied assessment data has a
\* default peer-assessment stage whose start time is the block's construction time.
C3_StartIsConstructionTime ==
    block.assessments_source = "default"
        => block.rubric_assessments[1].start_datetime = isoformat(block.constructed_at)

\* C4: get_grade_state is the fixed value "Incomplete" / "is--incomplete" in
\* every state of the block, and student_view passes it on as grade_state.
C4_GradeStateFixed ==
    /\ get_grade_state(block).value = "Incomplete"
    /\ get_grade_state(block).style_class = "is--incomplete"
    /\ last.op = "student_view"
          => /\ last.context_dict.grade_state = get_grade_state(block)
             /\ last.context_dict.grade_state.value = "Incomplete"
             /\ last.context_dict.grade_state.style_class = "is--incomplete"

C4_Witness ==
    /\ last.op = "student_view"
    /\ block.due_datetime # None
    /\ block.rubric_source = "updated"
    /\ block.children # <<>>

\* C5: render_assessment with a path that resolves to no template raises a
\* not-found error, returns no Response, and leaves every persisted field as it was.
C5_FailedRenderKeepsFields ==
    /\ [](last.op = "render_assessment" /\ last.path \notin TEMPLATES
            => last.raised = "TemplateDoesNotExist" /\ last.response = None)
    /\ [][(last'.op = "render_assessment" /\ last'.raised # None)
            => PersistedFields(block') = PersistedFields(block)]_vars

C5_Witness ==
    /\ last.op = "render_assessment"
    /\ last.raised = "TemplateDoesNotExist"
    /\ "rubric_instructions" \in DOMAIN last.given.dict
    /\ block.rubric_source = "updated"

\* C6: the student-item key is student_id = user_id, item_id = usage_id,
\* course_id = the block's course_id, item_type = 'openassessment', and with the
\* course_id fixed no other (usage_id, user_id) pair yields the same key.
C6_StudentItemKey ==
    LET d == get_student_item_dict(block) IN
    /\ DOMAIN d = {"student_id", "item_id", "course_id", "item_type"}
    /\ d.student_id = block.scope_ids.user_id
    /\ d.item_id = block.scope_ids.usage_id
    /\ d.course_id = block.course_id
    /\ d.item_type = "openassessment"
    /\ \A keys \in ScopeIds :
          keys # block.scope_ids
              => get_student_item_dict([block EXCEPT !.scope_ids = keys]) # d
    /\ last.op = "student_view" => last.student_item_dict = d

C6_Witness ==
    /\ last.op = "student_view"
    /\ block.course_id = "OtherCourse"
    /\ last.student_item_dict.course_id = "OtherCourse"

C9_ViewRenders ==
    last.op = "student_view"
        => /\ last.raised = None
           /\ last.fragment.content # ""

C9_Witness ==
    /\ last.op = "student_view"
    /\ block.title = ""
    /\ block.prompt = ""
    /\ last.raised = None

\* C10: a successful render_assessment gives the template xblock_trace,
\* rubric_instructions and rubric_criteria from the block, whatever the caller
\* put under those keys, passes every other caller key through, and treats a
\* missing or empty caller context as an empty one.
C10_SharedContext ==
    (last.op = "render_assessment" /\ last.raised = None) =>
        LET d == last.context_dict
            given == last.given
            keys == IF given.is_none THEN {} ELSE DOMAIN given.dict
        IN /\ DOMAIN d = keys \cup {"xblock_trace", "rubric_instructions", "rubric_criteria"}
           /\ d["xblock_trace"] = <<block.scope_ids.usage_id, block.scope_ids.user_id>>
           /\ d["rubric_instructions"] = block.rubric_instructions
           /\ d["rubric_criteria"] = block.rubric_criteria
           /\ \A k \in keys \ {"xblock_trace", "rubric_instructions", "rubric_criteria"} :
                 d[k] = given.dict[k]

C10_Witness ==
    /\ last.op = "render_assessment"
    /\ last.raised = None
    /\ ~last.given.is_none
    /\ DOMAIN last.given.dict = CallerKeys
    /\ last.context_dict["rubric_instructions"] # last.given.dict["rubric_instructions"]
====
